---- MODULE Spec2Model ----
(***************************************************************************)
(* A model of the maintenance scripts scripts/inject_titles.py (the Title  *)
(* Injector) and scripts/gen_nav.py (the Navigation Builder).              *)
(*                                                                         *)
(* A text (a Python str) is a sequence of one-character strings, so that   *)
(* split, join, find, slicing and the title conversions are computed the   *)
(* way Python computes them.  The file system is the function fs from the  *)
(* paths <<section, name>> of the existing content files to their text,    *)
(* the set dirs of the section directories that exist, and the two files   *)
(* mkdocs.yml (mkdocs) and .bak.mkdocs.yml (bak).                          *)
(***************************************************************************)
EXTENDS Integers, Sequences, FiniteSets, TLC

VARIABLES
    fs,               \* [path -> text] of the content files that exist
    dirs,             \* the section directories that exist
    mkdocs,           \* the text of mkdocs.yml
    bak,              \* .bak.mkdocs.yml: [exists |-> BOOLEAN, text |-> text]
    pc,               \* where the running script is
    sec,              \* index of the section the script's for loop is at
    todo,             \* inject_titles: files of the section still to update
    title,            \* inject_titles: file_update's local `title` at its end
    nav_lines,        \* gen_nav: the global nav_lines
    original,         \* gen_nav: the global original
    start_nav_index,  \* gen_nav: the global start_nav_index
    updated,          \* gen_nav: the global updated
    raised,           \* the exception that ended the run, or "none"
    run,              \* number of the run of the script (1, 2, ...)
    prev,             \* how the previous run ended: "none", "done", "failed"
    log,              \* history: the file reads and writes of this run, in order
    log0,             \* history: log of the previous run
    fs0,              \* history: fs when this run started
    mkdocs0,          \* history: mkdocs when this run started
    bak0              \* history: bak when this run started

vars == <<fs, dirs, mkdocs, bak, pc, sec, todo, title, nav_lines, original,
          start_nav_index, updated, raised, run, prev, log, log0, fs0, mkdocs0,
          bak0>>

(***************************************************************************)
(* Bounds of the model.                                                    *)
(***************************************************************************)
MaxLines == 5        \* lines of a content file (SpecFile)
MaxTitleLen == 3     \* characters after "title: " on a title line (SpecTitle)
MaxFiles == 3        \* content files other than index.md in a tree (SpecInject)
MaxRuns == 2         \* consecutive runs of a script
MaxChunks == 3       \* pieces a mkdocs.yml is put together from (SpecNav)

(***************************************************************************)
(* Python's str and list operations on texts.                              *)
(***************************************************************************)
Min(a, b) == IF a <= b THEN a ELSE b
Max(a, b) == IF a >= b THEN a ELSE b

\* str.rfind in place of str.find: the last occurrence
str_rfind(s, p) ==
    LET hits == {k \in 0..(Len(s) - Len(p)) : SubSeq(s, k + 1, k + Len(p)) = p}
    IN  IF hits = {} THEN -1 ELSE CHOOSE k \in hits : \A j \in hits : j <= k

\* str.find(p): the 0-based index of the first occurrence of p in s, or -1
str_find(s, p) ==
    LET hits == {k \in 0..(Len(s) - Len(p)) : SubSeq(s, k + 1, k + Len(p)) = p}
    IN  IF hits = {} THEN -1 ELSE CHOOSE k \in hits : \A j \in hits : k <= j

\* p in s
str_in(p, s) == str_find(s, p) # -1

\* a slice that takes a negative end for the start of the text
slice_to_clamped(s, k) == SubSeq(s, 1, Min(Max(k, 0), Len(s)))

\* s[:k], for any integer k (a negative k counts from the end)
slice_to(s, k) ==
    IF k >= 0 THEN SubSeq(s, 1, Min(k, Len(s)))
    ELSE SubSeq(s, 1, Max(Len(s) + k, 0))

\* s[k:], for k >= 0
slice_from(s, k) == SubSeq(s, Min(k, Len(s)) + 1, Len(s))

startswith(s, p) == Len(s) >= Len(p) /\ SubSeq(s, 1, Len(p)) = p

endswith(s, p) == Len(s) >= Len(p) /\ SubSeq(s, Len(s) - Len(p) + 1, Len(s)) = p

removeprefix(s, p) == IF startswith(s, p) THEN slice_from(s, Len(p)) ELSE s

removesuffix(s, p) ==
    IF p # <<>> /\ endswith(s, p) THEN SubSeq(s, 1, Len(s) - Len(p)) ELSE s

\* s.split(sep) for a one-character sep: never empty, keeps empty pieces
RECURSIVE str_split(_, _)
str_split(s, sep) ==
    LET k == str_find(s, <<sep>>)
    IN  IF k = -1 THEN <<s>>
        ELSE <<SubSeq(s, 1, k)>> \o str_split(slice_from(s, k + 1), sep)

\* sep.join(parts)
RECURSIVE str_join(_, _)
str_join(sep, parts) ==
    IF parts = <<>> THEN <<>>
    ELSE IF Len(parts) = 1 THEN parts[1]
    ELSE parts[1] \o sep \o str_join(sep, Tail(parts))

isspace(c) == c \in {" ", "\t", "\n", "\r", "\f"}

\* s.split(): the maximal runs of non-whitespace characters
RECURSIVE split_ws(_)
split_ws(s) ==
    IF s = <<>> THEN <<>>
    ELSE IF isspace(Head(s)) THEN split_ws(Tail(s))
    ELSE LET ends == {k \in 1..Len(s) : isspace(s[k])}
             e == IF ends = {} THEN Len(s) + 1
                  ELSE CHOOSE k \in ends : \A j \in ends : k <= j
         IN  <<SubSeq(s, 1, e - 1)>> \o split_ws(SubSeq(s, e, Len(s)))

\* s.replace(a, b) for one-character a and b
str_replace(s, a, b) == [k \in 1..Len(s) |-> IF s[k] = a THEN b ELSE s[k]]

Lowers == <<"a", "b", "c", "d", "e", "f", "g", "h", "i", "j", "k", "l", "m",
            "n", "o", "p", "q", "r", "s", "t", "u", "v", "w", "x", "y", "z">>
Uppers == <<"A", "B", "C", "D", "E", "F", "G", "H", "I", "J", "K", "L", "M",
            "N", "O", "P", "Q", "R", "S", "T", "U", "V", "W", "X", "Y", "Z">>

iscased(c) == \E k \in 1..Len(Lowers) : c = Lowers[k] \/ c = Uppers[k]

upper(c) ==
    IF \E k \in 1..Len(Lowers) : c = Lowers[k]
    THEN Uppers[CHOOSE k \in 1..Len(Lowers) : c = Lowers[k]] ELSE c

lower(c) ==
    IF \E k \in 1..Len(Uppers) : c = Uppers[k]
    THEN Lowers[CHOOSE k \in 1..Len(Uppers) : c = Uppers[k]] ELSE c

\* s.lower()
str_lower(s) == [k \in 1..Len(s) |-> lower(s[k])]

\* s.title(): a cased character is upper-cased when the character before it
\* is not cased, and lower-cased otherwise
str_title(s) ==
    [k \in 1..Len(s) |->
        IF k > 1 /\ iscased(s[k - 1]) THEN lower(s[k]) ELSE upper(s[k])]

\* The characters of the model in code point order.
CodePoints == <<"\t", "\n", "\f", "\r", " ", "\"", "#", "'", "-", ".", "/", ":">>
              \o Uppers \o <<"_">> \o Lowers

ord(c) == CHOOSE k \in 1..Len(CodePoints) : CodePoints[k] = c

\* a < b for two strs: by code point, a proper prefix first
RECURSIVE str_lt(_, _)
str_lt(a, b) ==
    IF b = <<>> THEN FALSE
    ELSE IF a = <<>> THEN TRUE
    ELSE IF Head(a) = Head(b) THEN str_lt(Tail(a), Tail(b))
    ELSE ord(Head(a)) < ord(Head(b))

\* PurePath.stem: the name up to its last dot, unless that dot leads or ends it
stem(name) ==
    LET dots == {k \in 1..Len(name) : name[k] = "."}
        i == IF dots = {} THEN 0 ELSE CHOOSE k \in dots : \A j \in dots : j <= k
    IN  IF 1 < i /\ i < Len(name) THEN SubSeq(name, 1, i - 1) ELSE name

\* sorted(f) for a list of paths of one directory, given by their names
RECURSIVE sorted(_)
sorted(f) ==
    IF f = <<>> THEN <<>>
    ELSE LET rest == sorted(Tail(f))
             n == Cardinality({k \in 1..Len(rest) : ~str_lt(Head(f), rest[k])})
         IN  SubSeq(rest, 1, n) \o <<Head(f)>> \o SubSeq(rest, n + 1, Len(rest))

(***************************************************************************)
(* The texts the scripts name.                                             *)
(***************************************************************************)
NAV_KEY == <<"#", " ", "N", "A", "V">>

TitleKey == <<"t", "i", "t", "l", "e", ":", " ">>
Rule == <<"-", "-", "-">>
HeadingMark == <<"#", " ">>
Quote == <<"\"">>
Index == <<"i", "n", "d", "e", "x">>

Blog == <<"b", "l", "o", "g">>
Guides == <<"g", "u", "i", "d", "e", "s">>
Resources == <<"r", "e", "s", "o", "u", "r", "c", "e", "s">>
Setups == <<"s", "e", "t", "u", "p", "s">>

\* the list both scripts loop over
Sections == <<Blog, Guides, Resources, Setups>>

(***************************************************************************)
(* Section Lister: sorted_files of inject_titles.py and of gen_nav.py      *)
(* (the same three lines).  iterdir() yields the directory's entries in an *)
(* arbitrary order: listing is one such order, as a sequence of names.     *)
(***************************************************************************)
names_in(files, slug) == {p[2] : p \in {q \in DOMAIN files : q[1] = slug}}

\* the orders iterdir() may yield the names of a directory in
iterdir(files, slug) ==
    LET S == names_in(files, slug)
    IN  {o \in [1..Cardinality(S) -> S] : \A a, b \in DOMAIN o : o[a] = o[b] => a = b}

RECURSIVE not_index(_)
not_index(listing) ==
    IF listing = <<>> THEN <<>>
    ELSE IF Index # stem(Head(listing)) THEN <<Head(listing)>> \o not_index(Tail(listing))
    ELSE not_index(Tail(listing))

\* the listing filtered but left in iterdir()'s order
sorted_files_unsorted(listing) == not_index(listing)

sorted_files(listing) == sorted(not_index(listing))

(***************************************************************************)
(* Title Injector: file_update.                                            *)
(***************************************************************************)
Unbound == [bound |-> FALSE, value |-> <<>>]
Bound(t) == [bound |-> TRUE, value |-> t]

RECURSIVE strip_quotes(_)
strip_quotes(s) ==
    IF s # <<>> /\ Head(s) = "\""  THEN strip_quotes(Tail(s))
    ELSE IF s # <<>> /\ s[Len(s)] = "\"" THEN strip_quotes(SubSeq(s, 1, Len(s) - 1))
    ELSE s

\* .strip('"') in place of removeprefix and removesuffix: every layer goes
extract_title_strip(line) ==
    LET line_parts == split_ws(line)
        rest == IF line_parts = <<>> THEN <<>> ELSE Tail(line_parts)
    IN  strip_quotes(str_join(<<" ">>, rest))

\* line 13-14: line.split(), then ' '.join(line_parts[1:]) without one
\* leading and one trailing double quote
extract_title(line) ==
    LET line_parts == split_ws(line)
        rest == IF line_parts = <<>> THEN <<>> ELSE Tail(line_parts)
    IN  removesuffix(removeprefix(str_join(<<" ">>, rest), Quote), Quote)

\* the loop without `and i >= 1`: the opening '---' ends the scan
RECURSIVE scan_from_0(_, _, _)
scan_from_0(lines, i, t) ==
    LET line == lines[i + 1]
        t1 == IF str_in(TitleKey, line) THEN Bound(extract_title(line)) ELSE t
    IN  IF str_in(Rule, line) \/ i = Len(lines) - 1
        THEN [i |-> i, title |-> t1]
        ELSE scan_from_0(lines, i + 1, t1)

\* lines 11-16: the for loop from line index i (0-based) on, with `title` as
\* it is bound so far; yields the loop variable i and title after the loop
RECURSIVE scan(_, _, _)
scan(lines, i, t) ==
    LET line == lines[i + 1]
        t1 == IF str_in(TitleKey, line) THEN Bound(extract_title(line)) ELSE t
    IN  IF (str_in(Rule, line) /\ i >= 1) \/ i = Len(lines) - 1
        THEN [i |-> i, title |-> t1]
        ELSE scan(lines, i + 1, t1)

heading(t) == HeadingMark \o t

\* the insertion without its leading blank line: the heading lands on the
\* line after the terminator
rewrite_two_lines(lines, i, t) ==
    IF lines[i + 3] = heading(t)
    THEN [wrote |-> FALSE, text |-> <<>>]
    ELSE IF startswith(lines[i + 3], HeadingMark)
    THEN [wrote |-> TRUE,
          text |-> str_join(<<"\n">>, [lines EXCEPT ![i + 3] = heading(t)])]
    ELSE [wrote |-> TRUE,
          text |-> str_join(<<"\n">>,
                       SubSeq(lines, 1, i + 1) \o <<heading(t), <<>>>>
                       \o SubSeq(lines, i + 2, Len(lines)))]

\* lines 18-25 with lines[i + 2] in range and title bound: whether
\* write_text is called, and the text it is called with
rewrite(lines, i, t) ==
    IF lines[i + 3] = heading(t)
    THEN [wrote |-> FALSE, text |-> <<>>]
    ELSE IF startswith(lines[i + 3], HeadingMark)
    THEN [wrote |-> TRUE,
          text |-> str_join(<<"\n">>, [lines EXCEPT ![i + 3] = heading(t)])]
    ELSE [wrote |-> TRUE,
          text |-> str_join(<<"\n">>,
                       SubSeq(lines, 1, i + 1) \o <<<<>>, heading(t), <<>>>>
                       \o SubSeq(lines, i + 2, Len(lines)))]

\* file_update on a file whose text is `text`: the exception it raises (or
\* "none"), whether it wrote the file, the file's text afterwards, and the
\* local title when it ends
file_update(text) ==
    LET lines == str_split(text, "\n")
        at == scan(lines, 0, Unbound)
    IN  IF at.i + 2 >= Len(lines)
        THEN [raised |-> "IndexError", wrote |-> FALSE, text |-> text, title |-> at.title]
        ELSE IF ~at.title.bound
        THEN [raised |-> "NameError", wrote |-> FALSE, text |-> text, title |-> at.title]
        ELSE LET w == rewrite(lines, at.i, at.title.value)
             IN  [raised |-> "none", wrote |-> w.wrote,
                  text |-> IF w.wrote THEN w.text ELSE text, title |-> at.title]

(***************************************************************************)
(* The file trees the runs start from.                                     *)
(***************************************************************************)
NoBackup == [exists |-> FALSE, text |-> <<>>]
AllDirs == {Sections[k] : k \in 1..Len(Sections)}

A_md == <<"a", ".", "m", "d">>
B_md == <<"b", ".", "m", "d">>
Index_md == <<"i", "n", "d", "e", "x", ".", "m", "d">>

TitleLine == TitleKey \o <<"T">>
Heading == <<"#", " ", "T">>
OldHeading == <<"#", " ", "O">>
Body == <<"x">>
Blank == <<>>
TitleRuleLine == TitleKey \o <<"T", " ">> \o Rule

Text(lines) == str_join(<<"\n">>, lines)

\* SpecFile: every content file of at most MaxLines lines out of FileLines
FileLines == {Rule, TitleLine, Heading, OldHeading, Body, Blank}
FileTexts == {Text(ls) : ls \in UNION {[1..n -> FileLines] : n \in 1..MaxLines}}

\* SpecTitle: front matter whose title line is any of TitleLines
TitleChars == {"a", "\"", "'", ":", " "}
TitlePrefixes == {<<>>, <<" ">>, <<"m", " ">>}
TitleLines ==
    {pre \o TitleKey \o v :
        pre \in TitlePrefixes,
        v \in UNION {[1..n -> TitleChars] : n \in 0..MaxTitleLen}}
TitleTexts == {Text(<<Rule, tl, Rule, Blank, Body>>) : tl \in TitleLines}

\* SpecInject: trees of at most MaxFiles content files, each one of DocPool,
\* beside a blog/index.md that has no front matter
DocPool ==
    { Text(<<Rule, TitleLine, Rule, Body, Blank>>),       \* heading missing
      Text(<<Rule, TitleLine, Rule, Blank, Heading>>),    \* heading right
      Text(<<Rule, TitleLine, Rule, Blank, OldHeading>>), \* heading wrong
      Text(<<Rule, Body, Rule, Blank, Body>>),            \* no title field
      Text(<<Rule, TitleLine, Body, Blank>>),             \* no terminator
      Text(<<Rule, TitleRuleLine, Blank, Body>>) }        \* title line ends the scan
TreePaths == {<<Blog, A_md>>, <<Blog, B_md>>, <<Guides, A_md>>, <<Setups, A_md>>}
IndexPath == <<Blog, Index_md>>
Trees ==
    UNION {[S -> DocPool] : S \in {T \in SUBSET TreePaths : Cardinality(T) <= MaxFiles}}

\* inject_titles.py neither reads nor writes what gen_nav.py works on
InitOther ==
    /\ mkdocs = <<>> /\ mkdocs0 = <<>> /\ bak = NoBackup /\ bak0 = NoBackup
    /\ nav_lines = <<>> /\ original = <<>> /\ start_nav_index = 0
    /\ updated = <<>>

InitRun(script) ==
    /\ pc = script /\ sec = 1 /\ todo = <<>> /\ title = Unbound
    /\ raised = "none" /\ run = 1 /\ prev = "none" /\ log = <<>> /\ log0 = <<>>
    /\ fs0 = fs

InitInject ==
    /\ \E t \in Trees : fs = t @@ (IndexPath :> Body)
    /\ dirs \in {AllDirs, AllDirs \ {Resources}}
    /\ InitOther /\ InitRun("section_update")

InitFile ==
    /\ \E t \in FileTexts : fs = (<<Blog, A_md>> :> t)
    /\ dirs = AllDirs
    /\ InitOther /\ InitRun("section_update")

InitTitle ==
    /\ \E t \in TitleTexts : fs = (<<Blog, A_md>> :> t)
    /\ dirs = AllDirs
    /\ InitOther /\ InitRun("section_update")

(***************************************************************************)
(* Title Injector: the run of inject_titles.py.                            *)
(***************************************************************************)
NavVars == <<mkdocs, bak, nav_lines, original, start_nav_index, updated, mkdocs0, bak0>>

Read(p) == <<"read", p>>
Write(p) == <<"write", p>>

\* line 34-35, 28-29: section_update(section) is called and lists the section
SectionUpdate ==
    /\ pc = "section_update"
    /\ LET section_slug == str_lower(Sections[sec])
       IN  IF section_slug \in dirs
           THEN /\ \E listing \in iterdir(fs, section_slug) :
                      todo' = sorted_files(listing)
                /\ pc' = "file_update"
                /\ raised' = raised
           ELSE /\ pc' = "failed"
                /\ raised' = "FileNotFoundError"
                /\ todo' = todo
    /\ UNCHANGED <<fs, dirs, sec, title, run, prev, log, log0, fs0, NavVars>>

\* a loop that catches the exception and goes on to the next file
FileUpdateSkipping ==
    /\ pc = "file_update"
    /\ todo # <<>>
    /\ LET filename == <<str_lower(Sections[sec]), Head(todo)>>
           r == file_update(fs[filename])
       IN  /\ fs' = [fs EXCEPT ![filename] = r.text]
           /\ log' = log \o <<Read(filename)>>
                         \o (IF r.wrote THEN <<Write(filename)>> ELSE <<>>)
           /\ title' = r.title
    /\ raised' = raised /\ pc' = pc /\ todo' = Tail(todo)
    /\ UNCHANGED <<dirs, sec, run, prev, log0, fs0, NavVars>>

\* line 29-30: the next file of the section goes through file_update; an
\* exception leaves the loops and ends the run
FileUpdate ==
    /\ pc = "file_update"
    /\ todo # <<>>
    /\ LET filename == <<str_lower(Sections[sec]), Head(todo)>>
           r == file_update(fs[filename])
       IN  /\ fs' = [fs EXCEPT ![filename] = r.text]
           /\ log' = log \o <<Read(filename)>>
                         \o (IF r.wrote THEN <<Write(filename)>> ELSE <<>>)
           /\ title' = r.title
           /\ raised' = r.raised
           /\ IF r.raised = "none"
              THEN pc' = pc /\ todo' = Tail(todo)
              ELSE pc' = "failed" /\ todo' = todo
    /\ UNCHANGED <<dirs, sec, run, prev, log0, fs0, NavVars>>

\* section_update returns; the for loop of line 34 goes on or ends
SectionReturn ==
    /\ pc = "file_update"
    /\ todo = <<>>
    /\ IF sec < Len(Sections)
       THEN pc' = "section_update" /\ sec' = sec + 1
       ELSE pc' = "done" /\ sec' = sec
    /\ UNCHANGED <<fs, dirs, todo, title, raised, run, prev, log, log0, fs0, NavVars>>

\* the maintainer runs inject_titles.py again on the tree the run left
InjectAgain ==
    /\ pc \in {"done", "failed"}
    /\ run < MaxRuns
    /\ run' = run + 1
    /\ prev' = pc
    /\ pc' = "section_update" /\ sec' = 1 /\ todo' = <<>> /\ title' = Unbound
    /\ raised' = "none" /\ log' = <<>> /\ log0' = log /\ fs0' = fs
    /\ UNCHANGED <<fs, dirs, NavVars>>

NextInject == SectionUpdate \/ FileUpdate \/ SectionReturn \/ InjectAgain

SpecInject == InitInject /\ [][NextInject]_vars
SpecFile == InitFile /\ [][NextInject]_vars
SpecTitle == InitTitle /\ [][NextInject]_vars

(***************************************************************************)
(* Navigation Builder: the run of gen_nav.py.                              *)
(***************************************************************************)
NavRoot == <<"n", "a", "v", ":">>
Indent2 == <<" ", " ", "-", " ">>
Indent4 == <<" ", " ", " ", " ", "-", " ">>
IndexLeaf == <<"/", "i", "n", "d", "e", "x", ".", "m", "d">>

MkdocsPath == <<<<>>, <<"m", "k", "d", "o", "c", "s", ".", "y", "m", "l">>>>
BakPath == <<<<>>, <<".", "b", "a", "k", ".", "m", "k", "d", "o", "c", "s", ".", "y", "m", "l">>>>

\* nav_lines without the marker line
nav_lines_no_key == <<NavRoot>>

\* line 17
nav_lines_init == <<NAV_KEY, NavRoot>>

\* line 13-14: the leaf of one file
leaf(section_slug, filename) ==
    LET t == str_title(str_replace(str_replace(stem(filename), "-", " "), "_", " "))
    IN  Indent4 \o <<"'">> \o t \o <<"'", ":", " ">> \o section_slug \o <<"/">> \o stem(filename)

RECURSIVE leaves(_, _)
leaves(section_slug, files) ==
    IF files = <<>> THEN <<>>
    ELSE <<leaf(section_slug, Head(files))>> \o leaves(section_slug, Tail(files))

\* lines 9-16: section_nav(section), with iterdir() yielding listing
section_nav(section, listing) ==
    LET section_slug == str_lower(section)
    IN  <<Indent2 \o str_title(section) \o <<":">>, Indent4 \o section_slug \o IndexLeaf>>
        \o leaves(section_slug, sorted_files(listing))

\* SpecNav: a mkdocs.yml of at most MaxChunks of Chunks, beside a tree of at
\* most MaxFiles files of NavPaths
Chunks == {NAV_KEY, <<"x">>, <<"\n">>, <<"#", " ", "N">>}
RECURSIVE Concat(_)
Concat(parts) == IF parts = <<>> THEN <<>> ELSE Head(parts) \o Concat(Tail(parts))
MkdocsTexts == {Concat(cs) : cs \in UNION {[1..n -> Chunks] : n \in 0..MaxChunks}}

B_c_d_md == <<"b", "-", "c", "_", "d", ".", "m", "d">>
NavPaths == {<<Blog, B_c_d_md>>, <<Blog, A_md>>, <<Blog, Index_md>>, <<Setups, A_md>>}
NavTrees ==
    UNION {[S -> {Blank}] : S \in {T \in SUBSET NavPaths : Cardinality(T) <= MaxFiles}}

InitNav ==
    /\ fs \in NavTrees
    /\ dirs \in {AllDirs, AllDirs \ {Resources}}
    /\ mkdocs \in MkdocsTexts /\ mkdocs0 = mkdocs
    /\ bak = NoBackup /\ bak0 = NoBackup
    /\ nav_lines = nav_lines_init
    /\ original = <<>> /\ start_nav_index = 0 /\ updated = <<>>
    /\ InitRun("section_nav")

\* lines 19-20: one turn of the loop over the sections
SectionNav ==
    /\ pc = "section_nav"
    /\ LET section == Sections[sec]
       IN  IF str_lower(section) \in dirs
           THEN /\ \E listing \in iterdir(fs, str_lower(section)) :
                      nav_lines' = nav_lines \o section_nav(section, listing)
                /\ IF sec < Len(Sections)
                   THEN pc' = pc /\ sec' = sec + 1
                   ELSE pc' = "read_text" /\ sec' = sec
                /\ raised' = raised
           ELSE /\ pc' = "failed"
                /\ raised' = "FileNotFoundError"
                /\ UNCHANGED <<nav_lines, sec>>
    /\ UNCHANGED <<fs, dirs, mkdocs, bak, todo, title, original, start_nav_index,
                   updated, run, prev, log, log0, fs0, mkdocs0, bak0>>

\* line 24
ReadMkdocs ==
    /\ pc = "read_text"
    /\ original' = mkdocs
    /\ log' = log \o <<Read(MkdocsPath)>>
    /\ pc' = "backup"
    /\ UNCHANGED <<fs, dirs, mkdocs, bak, sec, todo, title, nav_lines,
                   start_nav_index, updated, raised, run, prev, log0, fs0,
                   mkdocs0, bak0>>

\* the script without its line 25: no backup is written
WriteBackupMissing ==
    /\ pc = "backup"
    /\ pc' = "splice"
    /\ UNCHANGED <<fs, dirs, mkdocs, bak, sec, todo, title, nav_lines, original,
                   start_nav_index, updated, raised, run, prev, log, log0, fs0,
                   mkdocs0, bak0>>

\* line 25
WriteBackup ==
    /\ pc = "backup"
    /\ bak' = [exists |-> TRUE, text |-> original]
    /\ log' = log \o <<Write(BakPath)>>
    /\ pc' = "splice"
    /\ UNCHANGED <<fs, dirs, mkdocs, sec, todo, title, nav_lines, original,
                   start_nav_index, updated, raised, run, prev, log0, fs0,
                   mkdocs0, bak0>>

\* lines 27-28
Splice ==
    /\ pc = "splice"
    /\ start_nav_index' = str_find(original, NAV_KEY)
    /\ updated' = slice_to(original, start_nav_index') \o str_join(<<"\n">>, nav_lines)
    /\ pc' = "write_text"
    /\ UNCHANGED <<fs, dirs, mkdocs, bak, sec, todo, title, nav_lines, original,
                   raised, run, prev, log, log0, fs0, mkdocs0, bak0>>

\* line 29
WriteMkdocs ==
    /\ pc = "write_text"
    /\ mkdocs' = updated
    /\ log' = log \o <<Write(MkdocsPath)>>
    /\ pc' = "done"
    /\ UNCHANGED <<fs, dirs, bak, sec, todo, title, nav_lines, original,
                   start_nav_index, updated, raised, run, prev, log0, fs0,
                   mkdocs0, bak0>>

\* the maintainer runs gen_nav.py again, the directories unchanged
NavAgain ==
    /\ pc \in {"done", "failed"}
    /\ run < MaxRuns
    /\ run' = run + 1
    /\ prev' = pc
    /\ pc' = "section_nav" /\ sec' = 1
    /\ nav_lines' = nav_lines_init
    /\ raised' = "none" /\ log' = <<>> /\ log0' = log
    /\ mkdocs0' = mkdocs /\ bak0' = bak
    /\ UNCHANGED <<fs, dirs, mkdocs, bak, todo, title, original, start_nav_index,
                   updated, fs0>>

NextNav == SectionNav \/ ReadMkdocs \/ WriteBackup \/ Splice \/ WriteMkdocs \/ NavAgain

SpecNav == InitNav /\ [][NextNav]_vars

(***************************************************************************)
(* What the claims about the Title Injector speak of, stated on the lines  *)
(* of a file without the scripts' loops.                                   *)
(***************************************************************************)
InLog(e) == \E k \in 1..Len(log) : log[k] = e
WroteIn(l) == \E k \in 1..Len(l) : l[k][1] = "write"
LinesOf(text) == str_split(text, "\n")

\* 0-based indices of the lines at index >= 1 that contain '---'
Terminators(lines) == {k \in 1..(Len(lines) - 1) : str_in(Rule, lines[k + 1])}
HasTerminator(lines) == Terminators(lines) # {}
Terminator(lines) == CHOOSE k \in Terminators(lines) : \A j \in Terminators(lines) : k <= j

\* 0-based indices of the lines containing 'title: ' before, or up to, the terminator
TitlesBefore(lines) ==
    {k \in 0..(Terminator(lines) - 1) : str_in(TitleKey, lines[k + 1])}
TitlesUpTo(lines) ==
    {k \in 0..Terminator(lines) : str_in(TitleKey, lines[k + 1])}

\* the title line file_update ends with: the last one up to the terminator
LastTitleLine(lines) ==
    lines[(CHOOSE k \in TitlesUpTo(lines) : \A j \in TitlesUpTo(lines) : j <= k) + 1]

WellFormed(lines) ==
    /\ HasTerminator(lines)
    /\ TitlesUpTo(lines) # {}
    /\ Terminator(lines) + 2 < Len(lines)

\* the order the run takes the content files in: sections in the order of
\* Sections, names ascending within a section
SectionNo(slug) == CHOOSE k \in 1..Len(Sections) : str_lower(Sections[k]) = slug
Listed(p) == stem(p[2]) # Index
Earlier(p, q) ==
    \/ SectionNo(p[1]) < SectionNo(q[1])
    \/ p[1] = q[1] /\ str_lt(p[2], q[2])

(***************************************************************************)
(* C1.  A second run of the Title Injector over the tree a completed run   *)
(* left ends without an exception, writes no file, and so leaves every     *)
(* file's text as the first run left it.                                   *)
(***************************************************************************)
C1_Idempotent ==
    prev = "done" =>
        /\ raised = "none"
        /\ ~WroteIn(log)
        /\ fs = fs0

\* a second run has gone through a tree in which the first run wrote a file
C1_Witness ==
    /\ prev = "done" /\ pc = "done"
    /\ WroteIn(log0)
    /\ Len(log) >= 2

(***************************************************************************)
(* C2.  For a file with expected title T, terminator at line index t and a *)
(* line L at index t+2, file_update's result is decided by L: L = '# T'    *)
(* leaves the file unwritten; L beginning with '# ' is replaced by '# T'   *)
(* with every other line unchanged; otherwise '', '# T', '' are inserted   *)
(* right after line t, every original line kept, those after t moved down  *)
(* by three.                                                               *)
(***************************************************************************)
C2_Decided(p) ==
    LET old == LinesOf(fs0[p])
        new == LinesOf(fs[p])
        t == Terminator(old)
        H == HeadingMark \o extract_title(LastTitleLine(old))
        L == old[t + 3]
    IN  IF L = H
        THEN ~InLog(Write(p)) /\ fs[p] = fs0[p]
        ELSE IF startswith(L, HeadingMark)
        THEN /\ InLog(Write(p))
             /\ Len(new) = Len(old)
             /\ \A k \in 1..Len(old) : new[k] = IF k = t + 3 THEN H ELSE old[k]
        ELSE /\ InLog(Write(p))
             /\ Len(new) = Len(old) + 3
             /\ \A k \in 1..(t + 1) : new[k] = old[k]
             /\ new[t + 2] = <<>> /\ new[t + 3] = H /\ new[t + 4] = <<>>
             /\ \A k \in (t + 2)..Len(old) : new[k + 3] = old[k]

\* C2: a file that has a line at terminator+2 ends as that line decides
C2_FileUpdate ==
    \A p \in DOMAIN fs :
        (InLog(Read(p)) /\ WellFormed(LinesOf(fs0[p]))) => C2_Decided(p)

\* a heading was inserted above a body line, which moved down by three
C2_Witness ==
    \E p \in DOMAIN fs :
        /\ InLog(Read(p)) /\ WellFormed(LinesOf(fs0[p]))
        /\ LET old == LinesOf(fs0[p])
               new == LinesOf(fs[p])
           IN  /\ Len(new) = Len(old) + 3
               /\ old[Len(old)] = Body
               /\ new[Len(new)] = Body

(***************************************************************************)
(* C3.  As claimed: a file with no line containing 'title: ' before its    *)
(* terminator, or with no terminator, makes file_update fail without       *)
(* writing the file; the run halts, no later file is read or written, and  *)
(* the files before it keep what file_update made of them.                 *)
(* As amended: the same, for a file with no line containing 'title: ' up   *)
(* to and including its terminator line, or with no terminator.            *)
(***************************************************************************)
C3_Fatal(p) ==
    /\ pc = "failed"
    /\ raised \in {"IndexError", "NameError"}
    /\ ~InLog(Write(p))
    /\ fs[p] = fs0[p]
    /\ \A q \in DOMAIN fs :
          (Listed(q) /\ Earlier(p, q)) =>
              ~InLog(Read(q)) /\ ~InLog(Write(q)) /\ fs[q] = fs0[q]
    /\ \A q \in DOMAIN fs :
          (Listed(q) /\ Earlier(q, p)) =>
              InLog(Read(q)) /\ fs[q] = file_update(fs0[q]).text

NoTitleBefore(lines) == HasTerminator(lines) /\ TitlesBefore(lines) = {}
NoTitleUpTo(lines) == HasTerminator(lines) /\ TitlesUpTo(lines) = {}

\* C3 as claimed: a file with no 'title: ' line before its terminator, or with
\* no terminator, fails unwritten and halts the run
C3_AsClaimed ==
    \A p \in DOMAIN fs :
        LET lines == LinesOf(fs0[p])
        IN  (InLog(Read(p)) /\ (NoTitleBefore(lines) \/ ~HasTerminator(lines)))
                => C3_Fatal(p)

\* C3 as amended: a file with no 'title: ' line up to and including its
\* terminator line, or with no terminator, fails unwritten and halts the run
C3_Amended ==
    \A p \in DOMAIN fs :
        LET lines == LinesOf(fs0[p])
        IN  (InLog(Read(p)) /\ (NoTitleUpTo(lines) \/ ~HasTerminator(lines)))
                => C3_Fatal(p)

\* a file without a title field failed after an earlier file was rewritten
\* and before a later file was looked at
C3_Witness ==
    \E p, q, r \in DOMAIN fs :
        /\ InLog(Read(p)) /\ NoTitleUpTo(LinesOf(fs0[p]))
        /\ pc = "failed"
        /\ Earlier(q, p) /\ InLog(Write(q)) /\ fs[q] # fs0[q]
        /\ Listed(r) /\ Earlier(p, r) /\ ~InLog(Read(r))

(***************************************************************************)
(* C4.  As claimed: the expected title is the part of the title line after *)
(* its first whitespace-delimited token, kept in full, less one layer of   *)
(* matching enclosing quote characters.                                    *)
(* As amended: it is the whitespace-delimited tokens after the first,      *)
(* joined by single spaces (so a run of whitespace inside the title        *)
(* becomes one space; ':' and inner quotes are kept), less one leading     *)
(* double quote if there is one and, independently, one trailing double    *)
(* quote if there is one; single quotes are kept.                          *)
(***************************************************************************)
RECURSIVE LStrip(_)
LStrip(s) == IF s # <<>> /\ isspace(Head(s)) THEN LStrip(Tail(s)) ELSE s
RECURSIVE DropToken(_)
DropToken(s) == IF s # <<>> /\ ~isspace(Head(s)) THEN DropToken(Tail(s)) ELSE s
RECURSIVE RStrip(_)
RStrip(s) ==
    IF s # <<>> /\ isspace(s[Len(s)]) THEN RStrip(SubSeq(s, 1, Len(s) - 1)) ELSE s

\* the part of the line after its first token, without the whitespace around it
AfterFirstToken(line) == RStrip(LStrip(DropToken(LStrip(line))))

QuoteChars == {"\"", "'"}
Unquoted(s) ==
    IF Len(s) >= 2 /\ s[1] \in QuoteChars /\ s[Len(s)] = s[1]
    THEN SubSeq(s, 2, Len(s) - 1) ELSE s

\* every run of whitespace inside s made one space
RECURSIVE Squeezed(_)
Squeezed(s) ==
    IF s = <<>> THEN <<>>
    ELSE IF isspace(s[1])
    THEN (IF Len(s) > 1 /\ ~isspace(s[2]) THEN <<" ">> ELSE <<>>) \o Squeezed(Tail(s))
    ELSE <<s[1]>> \o Squeezed(Tail(s))

LessLeadingDq(s) == IF s # <<>> /\ s[1] = "\"" THEN Tail(s) ELSE s
LessTrailingDq(s) == IF s # <<>> /\ s[Len(s)] = "\"" THEN SubSeq(s, 1, Len(s) - 1) ELSE s

\* the file file_update ended on last
LastRead == log[CHOOSE k \in 1..Len(log) : log[k][1] = "read" /\ \A j \in (k + 1)..Len(log) : log[j][1] # "read"][2]

TitleExtracted(want(_)) ==
    log # <<>> =>
        LET lines == LinesOf(fs0[LastRead])
        IN  (HasTerminator(lines) /\ TitlesUpTo(lines) # {}) =>
                title = Bound(want(LastTitleLine(lines)))

ClaimedTitle(line) == Unquoted(AfterFirstToken(line))
AmendedTitle(line) == LessTrailingDq(LessLeadingDq(Squeezed(AfterFirstToken(line))))

\* C4 as claimed: title is the rest of the title line after its first token,
\* kept in full, less one layer of matching enclosing quote characters
C4_AsClaimed == TitleExtracted(ClaimedTitle)

\* C4 as amended: title is the rest of the title line after its first token
\* with whitespace runs made one space, less a leading and less a trailing
\* double quote
C4_Amended == TitleExtracted(AmendedTitle)

\* the title ":" was taken from the line 'title: ":"', quotes removed, colon kept
C4_Witness ==
    /\ log # <<>>
    /\ LET lines == LinesOf(fs0[LastRead])
       IN  /\ HasTerminator(lines) /\ TitlesUpTo(lines) # {}
           /\ AfterFirstToken(LastTitleLine(lines)) = <<"\"", ":", "\"">>
    /\ title = Bound(<<":">>)

(***************************************************************************)
(* C9.  file_update completes on every file of the documented front-matter *)
(* format: '---' as line 0, a 'title: ' line before the closing '---'      *)
(* line, however few lines follow the closing line.                        *)
(***************************************************************************)
Documented(lines) ==
    /\ lines[1] = Rule
    /\ HasTerminator(lines)
    /\ lines[Terminator(lines) + 1] = Rule
    /\ \E k \in 1..(Terminator(lines) - 1) : startswith(lines[k + 1], TitleKey)

\* C9: a file of the documented format goes through file_update without an
\* exception and ends with its heading at terminator+2
C9_Completes ==
    \A p \in DOMAIN fs :
        (InLog(Read(p)) /\ Documented(LinesOf(fs0[p]))) =>
            /\ raised = "none"
            /\ LinesOf(fs[p])[Terminator(LinesOf(fs0[p])) + 3]
                   = HeadingMark \o extract_title(LastTitleLine(LinesOf(fs0[p])))

(***************************************************************************)
(* What the claims about the Navigation Builder speak of.                  *)
(***************************************************************************)
\* the positions (0-based) at which the marker occurs in a text
MarkerAt(text) ==
    {k \in 0..(Len(text) - Len(NAV_KEY)) :
        \A j \in 1..Len(NAV_KEY) : text[k + j] = NAV_KEY[j]}
HasMarker(text) == MarkerAt(text) # {}
FirstMarker(text) == CHOOSE k \in MarkerAt(text) : \A j \in MarkerAt(text) : k <= j

\* the navigation block the run generated
Block == str_join(<<"\n">>, nav_lines)

\* the loop over the sections has ended
Listed4 == pc \in {"read_text", "backup", "splice", "write_text", "done"}

\* the names a section's group has leaves for, and the place of each
Leafed(slug) == {n \in names_in(fs, slug) : stem(n) # Index}
Rank(slug, n) == 1 + Cardinality({m \in Leafed(slug) : str_lt(m, n)})

\* where the group of section k starts in the block (the line before it)
RECURSIVE GroupAt(_)
GroupAt(k) ==
    IF k = 1 THEN 2
    ELSE GroupAt(k - 1) + 2 + Cardinality(Leafed(str_lower(Sections[k - 1])))

(***************************************************************************)
(* C5.  In every run of the Navigation Builder the backup is written       *)
(* before mkdocs.yml is rewritten, and when mkdocs.yml is rewritten the    *)
(* backup holds exactly what mkdocs.yml held when the run started; a run   *)
(* that fails before it reads mkdocs.yml writes neither file.              *)
(***************************************************************************)
C5_BackupFirst ==
    /\ \A k \in 1..Len(log) :
          log[k] = Write(MkdocsPath) => \E j \in 1..(k - 1) : log[j] = Write(BakPath)
    /\ (pc = "write_text" \/ InLog(Write(MkdocsPath)) \/ mkdocs # mkdocs0) =>
          bak = [exists |-> TRUE, text |-> mkdocs0]
    /\ (pc = "failed" /\ ~InLog(Read(MkdocsPath))) =>
          log = <<>> /\ bak = bak0 /\ mkdocs = mkdocs0

\* mkdocs.yml was rewritten to something else, and the backup holds the old text
C5_Witness ==
    /\ pc = "done"
    /\ mkdocs # mkdocs0
    /\ bak.exists /\ bak.text = mkdocs0
    /\ log = <<Read(MkdocsPath), Write(BakPath), Write(MkdocsPath)>>

(***************************************************************************)
(* C6.  When '# NAV' occurs in mkdocs.yml, the rewritten document is the   *)
(* original strictly before the first occurrence of the marker, followed   *)
(* at once by the generated block; nothing of the original from that       *)
(* occurrence on is kept.                                                  *)
(***************************************************************************)
C6_Splice ==
    (pc = "done" /\ HasMarker(mkdocs0)) =>
        /\ mkdocs = SubSeq(mkdocs0, 1, FirstMarker(mkdocs0)) \o Block
        /\ Len(mkdocs) = FirstMarker(mkdocs0) + Len(Block)

\* a document with text before its first marker and a second marker after it
C6_Witness ==
    /\ pc = "done" /\ run = 1
    /\ Cardinality(MarkerAt(mkdocs0)) = 2
    /\ FirstMarker(mkdocs0) > 0
    /\ mkdocs # mkdocs0

(***************************************************************************)
(* C7.  The generated block is the marker line, the root key line, then    *)
(* one group per section in the order blog, guides, resources, setups:     *)
(* the section's header line, its index-path entry, then exactly one leaf  *)
(* per file of the section's directory whose stem is not 'index', in       *)
(* ascending order of file name.                                           *)
(***************************************************************************)
C7_Block ==
    Listed4 =>
        /\ nav_lines[1] = NAV_KEY
        /\ nav_lines[2] = NavRoot
        /\ Len(nav_lines) = GroupAt(Len(Sections) + 1)
        /\ \A k \in 1..Len(Sections) :
              LET slug == str_lower(Sections[k])
                  at == GroupAt(k)
              IN  /\ nav_lines[at + 1] = Indent2 \o str_title(Sections[k]) \o <<":">>
                  /\ nav_lines[at + 2] = Indent4 \o slug \o IndexLeaf
                  /\ \A n \in Leafed(slug) :
                        nav_lines[at + 2 + Rank(slug, n)] = leaf(slug, n)

\* blog holds index.md and two other files, which the block lists in order
C7_Witness ==
    /\ Listed4
    /\ names_in(fs, Blog) = {B_c_d_md, A_md, Index_md}
    /\ nav_lines[5] = leaf(Blog, A_md)
    /\ nav_lines[6] = leaf(Blog, B_c_d_md)
    /\ Len(nav_lines) >= 12

C10_Idempotent ==
    (prev = "done" /\ pc = "done") =>
        /\ mkdocs = mkdocs0
        /\ start_nav_index = Len(mkdocs0) - Len(Block)
        /\ bak = [exists |-> TRUE, text |-> mkdocs0]

\* the second run ended on a document the first run had changed, and its
\* backup is no longer the document the first run started from
C10_Witness ==
    /\ prev = "done" /\ pc = "done"
    /\ bak0.exists /\ bak0.text # mkdocs0
    /\ ~HasMarker(bak0.text)
    /\ bak.text = mkdocs0

====
